---- MODULE Spec2Model ----
(***************************************************************************)
(* Model of dnsalt.py: the domain permutation generator (class dnsalt),    *)
(* the single-candidate DNS check (dnsalt.check_domain_resolution) and the *)
(* thread-pool batch check (check_domains_bulk).                           *)
(*                                                                         *)
(* Python strings are sequences of code points; a Python list is a         *)
(* sequence; None is the record None and a str value s is PyStr(s).        *)
(***************************************************************************)
EXTENDS Integers, Sequences, FiniteSets, TLC

\* ------------------------------------------------------------------------
\* Bounds of the model
\* ------------------------------------------------------------------------
MaxLen == 4
MaxCandidates == 3
MaxWorkers == 2
MaxGenLen == 3

\* Code points used in the input domains: '-', '.', 'a', 'b'.
DOT == 46
Alphabet == {45, DOT, 97, 98}

RECURSIVE StringsUpTo(_)
StringsUpTo(n) ==
    IF n = 0 THEN {<< >>}
    ELSE LET shorter == StringsUpTo(n - 1)
         IN  shorter \cup {Append(s, c) : s \in {t \in shorter : Len(t) = n - 1}, c \in Alphabet}

DomainInputs == StringsUpTo(MaxLen)

\* ------------------------------------------------------------------------
\* State
\* ------------------------------------------------------------------------
\* The permutator object: the constructor's argument, whether __init__ has
\* run, its three attributes, and the last attack called with its result.
VARIABLES domain, constructed, original_domain, name, tld, lastAttack, lastResult

permVars == << domain, constructed, original_domain, name, tld, lastAttack, lastResult >>

\* History: the first method call made on the instance, with what it returned.
VARIABLES firstCall

genVars == << firstCall >>

\* One direct call of check_domain_resolution: position, arguments, what
\* the lookup does, and how the call ended.
VARIABLES one_pc, one_domain, one_timeout, one_env, one_outcome

oneVars == << one_pc, one_domain, one_timeout, one_env, one_outcome >>

\* One call of check_domains_bulk.
VARIABLES
    module_globals,   \* names bound in the module's namespace
    domains,          \* argument: the candidates
    max_workers,      \* argument
    b_timeout,        \* argument `timeout`
    verbose,          \* argument
    pc,               \* position of the calling thread in check_domains_bulk
    results,          \* local `results`
    total,            \* local `total`
    completed,        \* local `completed`
    submitted,        \* number of candidates submitted so far
    work_queue,       \* the executor's FIFO of submitted, not yet started items
    worker,           \* worker thread -> index of the item it runs, 0 if idle
    future,           \* item index -> its future: state and outcome
    yielded,          \* futures as_completed has already yielded
    raised,           \* the exception check_domains_bulk ends with, or NoExc
    start_order       \* history: item indices in the order the workers took them

bulkVars == << module_globals, domains, max_workers, b_timeout, verbose, pc, results, total,
               completed, submitted, work_queue, worker, future, yielded, raised, start_order >>

\* The socket module's process-wide default timeout (set by
\* socket.setdefaulttimeout): << >> for None, << t >> for t seconds.
VARIABLES default_timeout

socketVars == << default_timeout >>

vars == << permVars, genVars, oneVars, bulkVars, socketVars >>

\* ------------------------------------------------------------------------
\* Python helpers
\* ------------------------------------------------------------------------
Min(a, b) == IF a < b THEN a ELSE b

\* s[lo:hi] with 0 <= lo (Python slice: clamps to the string's length)
Slice(s, lo, hi) == SubSeq(s, Min(lo, Len(s)) + 1, Min(hi, Len(s)))
\* s[lo:]
SliceFrom(s, lo) == Slice(s, lo, Len(s))
\* s[i], 0-based, as a one-character string
CharAt(s, i) == << s[i + 1] >>

\* f"{new_name}.{self.tld}"
Fmt(new_name, t) == new_name \o << DOT >> \o t

\* 1-based position of the last '.' of d, 0 when d has none
LastDot(d) ==
    LET dots == {k \in 1..Len(d) : d[k] = DOT}
    IN  IF dots = {} THEN 0 ELSE CHOOSE k \in dots : \A j \in dots : j <= k

\* domain.split('.', 1): splits on the first dot instead of the last
rsplit_first(d) ==
    LET k == CHOOSE j \in 1..Len(d) : d[j] = DOT /\ \A i \in 1..(j - 1) : d[i] # DOT
    IN  << SubSeq(d, 1, k - 1), SubSeq(d, k + 1, Len(d)) >>

\* domain.rsplit('.', 1)
rsplit(d) == << SubSeq(d, 1, LastDot(d) - 1), SubSeq(d, LastDot(d) + 1, Len(d)) >>

COM == << 99, 111, 109 >>

\* ------------------------------------------------------------------------
\* class dnsalt: construction
\* ------------------------------------------------------------------------
InitName(d) == IF LastDot(d) # 0 THEN rsplit(d)[1] ELSE d
InitTld(d)  == IF LastDot(d) # 0 THEN rsplit(d)[2] ELSE COM

\* ------------------------------------------------------------------------
\* transposition_attack
\* ------------------------------------------------------------------------
\* range(len(self.name) - 2): the last adjacent pair is never swapped
TranspositionRange_short(nm) == Len(nm) - 2

\* upper end of `for i in range(len(self.name) - 1)`
TranspositionRange(nm) == Len(nm) - 1

TranspositionName(nm, i) ==
    Slice(nm, 0, i) \o CharAt(nm, i + 1) \o CharAt(nm, i) \o SliceFrom(nm, i + 2)

RECURSIVE TranspositionLoop(_, _, _, _)
TranspositionLoop(nm, t, i, res) ==
    IF i >= TranspositionRange(nm) THEN res
    ELSE TranspositionLoop(nm, t, i + 1, Append(res, Fmt(TranspositionName(nm, i), t)))

transposition_attack(nm, t) == TranspositionLoop(nm, t, 0, << >>)

\* ------------------------------------------------------------------------
\* omission_attack
\* ------------------------------------------------------------------------
OmissionName(nm, i) == Slice(nm, 0, i) \o SliceFrom(nm, i + 1)

\* the emptiness test left out
OmissionKeep_always(new_name) == TRUE

\* `if new_name:`
OmissionKeep(new_name) == new_name # << >>

RECURSIVE OmissionLoop(_, _, _, _)
OmissionLoop(nm, t, i, res) ==
    IF i >= Len(nm) THEN res
    ELSE LET new_name == OmissionName(nm, i)
         IN  OmissionLoop(nm, t, i + 1,
                 IF OmissionKeep(new_name) THEN Append(res, Fmt(new_name, t))
                 ELSE res)

omission_attack(nm, t) == OmissionLoop(nm, t, 0, << >>)

\* ------------------------------------------------------------------------
\* bitsquat_attack
\* ------------------------------------------------------------------------
RECURSIVE Pow2(_)
Pow2(b) == IF b = 0 THEN 1 ELSE 2 * Pow2(b - 1)

\* ascii_val ^ (1 << bit): the bit is cleared when set, set when clear
FlipBit(ascii_val, bit) ==
    IF (ascii_val \div Pow2(bit)) % 2 = 1
    THEN ascii_val - Pow2(bit)
    ELSE ascii_val + Pow2(bit)

\* chr(v).isalnum() for a code point of the printable ASCII range
IsAlnum(v) == (48 <= v /\ v <= 57) \/ (65 <= v /\ v <= 90) \/ (97 <= v /\ v <= 122)

HYPHEN == 45

\* the alphanumeric-or-hyphen test left out
BitsquatKeep_printable(flipped_val) == 33 <= flipped_val /\ flipped_val <= 126

\* `if 33 <= flipped_val <= 126` and `if flipped_char.isalnum() or flipped_char == '-'`
BitsquatKeep(flipped_val) ==
    /\ 33 <= flipped_val /\ flipped_val <= 126
    /\ (IsAlnum(flipped_val) \/ flipped_val = HYPHEN)

\* number of bits flipped per character: `for bit in range(8)`
BitsPerChar == 8

BitsquatName(nm, i, flipped_val) == Slice(nm, 0, i) \o << flipped_val >> \o SliceFrom(nm, i + 1)

\* the inner loop over the bits of the character at position i
RECURSIVE BitsquatBits(_, _, _, _, _)
BitsquatBits(nm, t, i, bit, res) ==
    IF bit >= BitsPerChar THEN res
    ELSE LET flipped_val == FlipBit(nm[i + 1], bit)
         IN  BitsquatBits(nm, t, i, bit + 1,
                 IF BitsquatKeep(flipped_val)
                 THEN Append(res, Fmt(BitsquatName(nm, i, flipped_val), t))
                 ELSE res)

\* the outer loop over the characters of the name
RECURSIVE BitsquatLoop(_, _, _, _)
BitsquatLoop(nm, t, i, res) ==
    IF i >= Len(nm) THEN res
    ELSE BitsquatLoop(nm, t, i + 1, BitsquatBits(nm, t, i, 0, res))

bitsquat_attack(nm, t) == BitsquatLoop(nm, t, 0, << >>)

\* ------------------------------------------------------------------------
\* hyphenation_attack
\* ------------------------------------------------------------------------
\* VOWELS = ['a', 'e', 'i', 'o', 'u']
VOWELS == << 97, 101, 105, 111, 117 >>

\* c.lower(), c.upper() and c.isupper() for an ASCII character
Lower(c) == IF 65 <= c /\ c <= 90 THEN c + 32 ELSE c
Upper(c) == IF 97 <= c /\ c <= 122 THEN c - 32 ELSE c
IsUpper(c) == 65 <= c /\ c <= 90

\* x in l, for a list l
InList(x, l) == \E k \in 1..Len(l) : l[k] = x

\* self.name[i].lower() in self.VOWELS
IsVowelAt(nm, i) == InList(Lower(nm[i + 1]), VOWELS)

\* self.name[:i] + '-' + self.name[i:]
HyphenName(nm, i) == Slice(nm, 0, i) \o << HYPHEN >> \o SliceFrom(nm, i)

\* first loop: a hyphen between each pair of characters
RECURSIVE HyphenEveryBoundary(_, _, _, _)
HyphenEveryBoundary(nm, t, i, res) ==
    IF i >= Len(nm) THEN res
    ELSE HyphenEveryBoundary(nm, t, i + 1, Append(res, Fmt(HyphenName(nm, i), t)))

\* second loop: a hyphen where the vowel/consonant class changes, unless the
\* candidate is already in results
RECURSIVE HyphenClassBoundary(_, _, _, _)
HyphenClassBoundary(nm, t, i, res) ==
    IF i >= Len(nm) THEN res
    ELSE LET cand == Fmt(HyphenName(nm, i), t)
         IN  HyphenClassBoundary(nm, t, i + 1,
                 IF IsVowelAt(nm, i - 1) # IsVowelAt(nm, i) /\ ~InList(cand, res)
                 THEN Append(res, cand)
                 ELSE res)

hyphenation_attack(nm, t) ==
    HyphenClassBoundary(nm, t, 1, HyphenEveryBoundary(nm, t, 1, << >>))

\* ------------------------------------------------------------------------
\* The permutator as a state machine
\* ------------------------------------------------------------------------
\* dnsalt.__init__(domain)
dnsalt_init ==
    /\ ~constructed
    /\ constructed' = TRUE
    /\ original_domain' = domain
    /\ name' = InitName(domain)
    /\ tld' = InitTld(domain)
    /\ UNCHANGED << domain, lastAttack, lastResult >>
    /\ UNCHANGED << genVars, oneVars, bulkVars, socketVars >>

CallTransposition ==
    /\ constructed
    /\ lastAttack' = "transposition"
    /\ lastResult' = transposition_attack(name, tld)
    /\ UNCHANGED << domain, constructed, original_domain, name, tld >>
    /\ UNCHANGED << genVars, oneVars, bulkVars, socketVars >>

CallOmission ==
    /\ constructed
    /\ lastAttack' = "omission"
    /\ lastResult' = omission_attack(name, tld)
    /\ UNCHANGED << domain, constructed, original_domain, name, tld >>
    /\ UNCHANGED << genVars, oneVars, bulkVars, socketVars >>

CallBitsquat ==
    /\ constructed
    /\ lastAttack' = "bitsquat"
    /\ lastResult' = bitsquat_attack(name, tld)
    /\ UNCHANGED << domain, constructed, original_domain, name, tld >>
    /\ UNCHANGED << genVars, oneVars, bulkVars, socketVars >>

CallHyphenation ==
    /\ constructed
    /\ lastAttack' = "hyphenation"
    /\ lastResult' = hyphenation_attack(name, tld)
    /\ UNCHANGED << domain, constructed, original_domain, name, tld >>
    /\ UNCHANGED << genVars, oneVars, bulkVars, socketVars >>

PermNext == dnsalt_init \/ CallTransposition \/ CallOmission \/ CallBitsquat
                \/ CallHyphenation

\* ------------------------------------------------------------------------
\* The fixed tables of the class (characters as code points)
\* ------------------------------------------------------------------------
\* HOMOGLYPHS: lowercase letter -> its look-alike characters
HOMOGLYPHS ==
    (97 :> << 224, 225, 226, 227, 228, 229, 593, 1072, 7841, 462, 259, 551, 1235 >>) @@
    (98 :> << 100, 665, 1068, 595, 7683, 7685, 7687, 389 >>) @@
    (99 :> << 1010, 1089, 392, 267, 263, 231, 269, 265 >>) @@
    (100 :> << 98, 1281, 1386, 599, 271, 273, 7691, 7693, 7695, 7697, 7699 >>) @@
    (101 :> << 233, 232, 234, 235, 275, 277, 283, 279, 7865, 281, 553, 1213, 1239, 1077 >>) @@
    (102 :> << 989, 402, 7711 >>) @@
    (103 :> << 113, 610, 609, 289, 287, 1409, 501, 291 >>) @@
    (104 :> << 1211, 1210, 7715, 7717, 7719, 7721, 7723, 295 >>) @@
    (105 :> << 49, 108, 237, 236, 239, 238, 305, 617, 953, 42567, 464, 301, 618 >>) @@
    (106 :> << 1112, 669, 1011, 585, 309 >>) @@
    (107 :> << 954, 670, 1116, 311, 1181, 7729, 7731, 7733 >>) @@
    (108 :> << 49, 105, 671, 406, 953, 1231, 314, 316, 318, 7735, 7737, 7739, 7741 >>) @@
    (109 :> << 110, 7745, 7747, 7437, 1084, 625 >>) @@
    (110 :> << 109, 114, 324, 7749, 326, 7751, 7753, 241, 331, 626, 414, 1224, 565 >>) @@
    (111 :> << 48, 927, 959, 1054, 1086, 1365, 559, 7885, 7887, 417, 243, 246, 1255 >>) @@
    (112 :> << 961, 1088, 447, 1015, 7767, 7765 >>) @@
    (113 :> << 103, 1382, 1307, 1379, 672 >>) @@
    (114 :> << 640, 422, 636, 637, 341, 343, 345, 7769, 7771, 7773, 7775 >>) @@
    (115 :> << 1029, 642, 347, 7779, 7777, 351, 353, 537 >>) @@
    (116 :> << 964, 1090, 355, 357, 7787, 7789, 539, 7793, 7791 >>) @@
    (117 :> << 965, 1405, 651, 363, 250, 249, 252, 251, 361, 371, 7909, 7911, 432, 468, 365 >>) @@
    (118 :> << 957, 1141, 7807, 651, 7564, 7805, 11377 >>) @@
    (119 :> << 653, 7809, 7811, 7813, 7815, 7817, 373, 11379 >>) @@
    (120 :> << 1093, 1203, 7819, 7821 >>) @@
    (121 :> << 655, 1091, 253, 255, 375, 7823, 7923, 7925, 7927, 7929 >>) @@
    (122 :> << 656, 380, 378, 656, 380, 378, 382, 7827, 7829, 11372 >>)

\* KEYBOARD_ADJACENCY: lowercase letter -> the keys next to it
KEYBOARD_ADJACENCY ==
    (113 :> << 119, 97 >>) @@
    (119 :> << 113, 101, 115 >>) @@
    (101 :> << 119, 114, 100 >>) @@
    (114 :> << 101, 116, 102 >>) @@
    (116 :> << 114, 121, 103 >>) @@
    (121 :> << 116, 117, 104 >>) @@
    (117 :> << 121, 105, 106 >>) @@
    (105 :> << 117, 111, 107 >>) @@
    (111 :> << 105, 112, 108 >>) @@
    (112 :> << 111, 108 >>) @@
    (97 :> << 113, 115, 122 >>) @@
    (115 :> << 119, 97, 100, 120 >>) @@
    (100 :> << 101, 115, 102, 99 >>) @@
    (102 :> << 114, 100, 103, 118 >>) @@
    (103 :> << 116, 102, 104, 98 >>) @@
    (104 :> << 121, 103, 106, 110 >>) @@
    (106 :> << 117, 104, 107, 109 >>) @@
    (107 :> << 105, 106, 108 >>) @@
    (108 :> << 111, 107, 112 >>) @@
    (122 :> << 97, 120 >>) @@
    (120 :> << 122, 115, 99 >>) @@
    (99 :> << 120, 100, 118 >>) @@
    (118 :> << 99, 102, 98 >>) @@
    (98 :> << 118, 103, 110 >>) @@
    (110 :> << 98, 104, 109 >>) @@
    (109 :> << 110, 106 >>)

COMMON_TLDS == <<
    << 99, 111, 109 >>, << 110, 101, 116 >>, << 111, 114, 103 >>, << 99, 111 >>,
    << 105, 111 >>, << 97, 105 >>, << 98, 105, 122 >>, << 105, 110, 102, 111 >>,
    << 101, 100, 117 >>, << 103, 111, 118 >>, << 117, 107 >>, << 100, 101 >>,
    << 102, 114 >>, << 99, 110 >>, << 114, 117 >>, << 98, 114 >>, << 105, 110 >>,
    << 97, 117 >>, << 99, 97 >>, << 106, 112 >>, << 120, 121, 122 >>,
    << 115, 104, 111, 112 >>, << 112, 114, 111 >> >>

COMMON_SUBDOMAINS == <<
    << 119, 119, 119 >>, << 109, 97, 105, 108 >>,
    << 119, 101, 98, 109, 97, 105, 108 >>, << 102, 116, 112 >>,
    << 97, 100, 109, 105, 110 >>, << 112, 111, 114, 116, 97, 108 >>,
    << 115, 101, 99, 117, 114, 101 >>, << 108, 111, 103, 105, 110 >>,
    << 115, 105, 103, 110, 105, 110 >>, << 97, 99, 99, 111, 117, 110, 116 >>,
    << 115, 104, 111, 112 >>, << 115, 116, 111, 114, 101 >>,
    << 115, 117, 112, 112, 111, 114, 116 >>, << 104, 101, 108, 112 >>,
    << 98, 108, 111, 103 >>, << 110, 101, 119, 115 >>, << 97, 112, 105 >>,
    << 100, 101, 118 >>, << 115, 116, 97, 103, 105, 110, 103 >>,
    << 116, 101, 115, 116 >> >>

\* characters = 'abcdefghijklmnopqrstuvwxyz0123456789'
AdditionCharacters == << 97, 98, 99, 100, 101, 102, 103, 104, 105, 106, 107, 108, 109, 110, 111, 112, 113, 114, 115, 116, 117, 118, 119, 120, 121, 122, 48, 49, 50, 51, 52, 53, 54, 55, 56, 57 >>

\* the concatenation of a list of lists: the appends of a nested loop, in order
RECURSIVE Flatten(_)
Flatten(ss) == IF ss = << >> THEN << >> ELSE Head(ss) \o Flatten(Tail(ss))

\* ------------------------------------------------------------------------
\* homograph_attack
\* ------------------------------------------------------------------------
\* first loop: one candidate per look-alike of the character at position i
HomographSingle(nm, t) ==
    Flatten([k \in 1..Len(nm) |->
        LET i == k - 1
        IN  IF Lower(nm[i + 1]) \in DOMAIN HOMOGLYPHS
            THEN [h \in 1..Len(HOMOGLYPHS[Lower(nm[i + 1])]) |->
                     Fmt(Slice(nm, 0, i) \o << HOMOGLYPHS[Lower(nm[i + 1])][h] >> \o SliceFrom(nm, i + 1), t)]
            ELSE << >>])

\* second loop: both characters of a doubled character replaced
HomographDouble(nm, t) ==
    Flatten([k \in 1..(Len(nm) - 1) |->
        LET i == k - 1
        IN  IF nm[i + 1] = nm[i + 2] /\ Lower(nm[i + 1]) \in DOMAIN HOMOGLYPHS
            THEN [h \in 1..Len(HOMOGLYPHS[Lower(nm[i + 1])]) |->
                     Fmt(Slice(nm, 0, i) \o << HOMOGLYPHS[Lower(nm[i + 1])][h],
                                              HOMOGLYPHS[Lower(nm[i + 1])][h] >> \o SliceFrom(nm, i + 2), t)]
            ELSE << >>])

homograph_attack(nm, t) == HomographSingle(nm, t) \o HomographDouble(nm, t)

\* ------------------------------------------------------------------------
\* repetition_attack
\* ------------------------------------------------------------------------
RepetitionEach(nm, t) ==
    [k \in 1..Len(nm) |->
        LET i == k - 1 IN Fmt(Slice(nm, 0, i + 1) \o CharAt(nm, i) \o SliceFrom(nm, i + 1), t)]

RepetitionDoubled(nm, t) ==
    Flatten([k \in 1..(Len(nm) - 1) |->
        LET i == k - 1
        IN  IF nm[i + 1] = nm[i + 2]
            THEN << Fmt(Slice(nm, 0, i + 2) \o CharAt(nm, i) \o SliceFrom(nm, i + 2), t) >>
            ELSE << >>])

repetition_attack(nm, t) == RepetitionEach(nm, t) \o RepetitionDoubled(nm, t)

\* ------------------------------------------------------------------------
\* replacement_attack
\* ------------------------------------------------------------------------
\* `if char.isupper(): replacement = replacement.upper()`
MatchCase(char, replacement) == IF IsUpper(char) THEN Upper(replacement) ELSE replacement

replacement_attack(nm, t) ==
    Flatten([k \in 1..Len(nm) |->
        LET i == k - 1
        IN  IF Lower(nm[i + 1]) \in DOMAIN KEYBOARD_ADJACENCY
            THEN [r \in 1..Len(KEYBOARD_ADJACENCY[Lower(nm[i + 1])]) |->
                     Fmt(Slice(nm, 0, i)
                             \o << MatchCase(nm[i + 1], KEYBOARD_ADJACENCY[Lower(nm[i + 1])][r]) >>
                             \o SliceFrom(nm, i + 1), t)]
            ELSE << >>])

\* ------------------------------------------------------------------------
\* subdomain_attack
\* ------------------------------------------------------------------------
subdomain_attack(nm, t) ==
    Flatten([k \in 1..Len(COMMON_SUBDOMAINS) |->
        LET subdomain == COMMON_SUBDOMAINS[k]
        IN  << subdomain \o << DOT >> \o nm \o << DOT >> \o t,
               subdomain \o << HYPHEN >> \o nm \o << DOT >> \o t,
               nm \o << HYPHEN >> \o subdomain \o << DOT >> \o t,
               subdomain \o nm \o << DOT >> \o t,
               nm \o subdomain \o << DOT >> \o t >>])

\* ------------------------------------------------------------------------
\* vowel_swap_attack
\* ------------------------------------------------------------------------
vowel_swap_attack(nm, t) ==
    Flatten([k \in 1..Len(nm) |->
        LET i == k - 1
        IN  IF InList(Lower(nm[i + 1]), VOWELS)
            THEN Flatten([v \in 1..Len(VOWELS) |->
                     IF VOWELS[v] # Lower(nm[i + 1])
                     THEN << Fmt(Slice(nm, 0, i) \o << MatchCase(nm[i + 1], VOWELS[v]) >>
                                     \o SliceFrom(nm, i + 1), t) >>
                     ELSE << >>])
            ELSE << >>])

\* ------------------------------------------------------------------------
\* addition_attack
\* ------------------------------------------------------------------------
addition_attack(nm, t) ==
    Flatten([k \in 1..(Len(nm) + 1) |->
        LET i == k - 1
        IN  [c \in 1..Len(AdditionCharacters) |->
                Fmt(Slice(nm, 0, i) \o << AdditionCharacters[c] >> \o SliceFrom(nm, i), t)]])

\* ------------------------------------------------------------------------
\* doppelganger_attack
\* ------------------------------------------------------------------------
doppelganger_attack(nm, t) ==
    Flatten([k \in 1..Len(COMMON_TLDS) |->
        IF COMMON_TLDS[k] # t THEN << nm \o << DOT >> \o COMMON_TLDS[k] >> ELSE << >>])

\* ------------------------------------------------------------------------
\* generate_all and the calls of one instance
\* ------------------------------------------------------------------------
AttackKinds == {"homograph", "bitsquat", "hyphenation", "omission", "repetition", "replacement",
                "subdomain", "transposition", "vowel_swap", "addition", "doppelganger"}

generate_all(od, nm, t) ==
    [original      |-> << od >>,
     homograph     |-> homograph_attack(nm, t),
     bitsquat      |-> bitsquat_attack(nm, t),
     hyphenation   |-> hyphenation_attack(nm, t),
     omission      |-> omission_attack(nm, t),
     repetition    |-> repetition_attack(nm, t),
     replacement   |-> replacement_attack(nm, t),
     subdomain     |-> subdomain_attack(nm, t),
     transposition |-> transposition_attack(nm, t),
     vowel_swap    |-> vowel_swap_attack(nm, t),
     addition      |-> addition_attack(nm, t),
     doppelganger  |-> doppelganger_attack(nm, t)]

\* the value a method of the instance returns
MethodResult(kind, od, nm, t) ==
    CASE kind = "homograph"     -> homograph_attack(nm, t)
      [] kind = "bitsquat"      -> bitsquat_attack(nm, t)
      [] kind = "hyphenation"   -> hyphenation_attack(nm, t)
      [] kind = "omission"      -> omission_attack(nm, t)
      [] kind = "repetition"    -> repetition_attack(nm, t)
      [] kind = "replacement"   -> replacement_attack(nm, t)
      [] kind = "subdomain"     -> subdomain_attack(nm, t)
      [] kind = "transposition" -> transposition_attack(nm, t)
      [] kind = "vowel_swap"    -> vowel_swap_attack(nm, t)
      [] kind = "addition"      -> addition_attack(nm, t)
      [] kind = "doppelganger"  -> doppelganger_attack(nm, t)
      [] kind = "generate_all"  -> generate_all(od, nm, t)

\* an attack that keeps its last new_name in self.name
AttributesAfter_omission_assigns(kind, od, nm, t) ==
    IF kind \in {"omission", "generate_all"} /\ Len(nm) >= 2
    THEN << od, OmissionName(nm, Len(nm) - 1), t >>
    ELSE << od, nm, t >>

\* The attributes << original_domain, name, tld >> after a method has run:
\* the methods only read them, no method but __init__ assigns to self.
AttributesAfter(kind, od, nm, t) == << od, nm, t >>

NoCall == [kind |-> "none", result |-> << >>]

\* A call of one of the eleven attack methods or of generate_all.
Invoke(kind) ==
    /\ constructed
    /\ lastAttack' = kind
    /\ lastResult' = MethodResult(kind, original_domain, name, tld)
    /\ firstCall' = IF firstCall = NoCall THEN [kind |-> kind, result |-> lastResult'] ELSE firstCall
    /\ original_domain' = AttributesAfter(kind, original_domain, name, tld)[1]
    /\ name' = AttributesAfter(kind, original_domain, name, tld)[2]
    /\ tld' = AttributesAfter(kind, original_domain, name, tld)[3]
    /\ UNCHANGED << domain, constructed >>
    /\ UNCHANGED << oneVars, bulkVars, socketVars >>

InvokeAny == \E kind \in AttackKinds \cup {"generate_all"} : Invoke(kind)

GenNext == dnsalt_init \/ InvokeAny

\* ------------------------------------------------------------------------
\* Python values of the resolver
\* ------------------------------------------------------------------------
None == [isNone |-> TRUE, s |-> << >>]
PyStr(str) == [isNone |-> FALSE, s |-> str]

NoExc == [cls |-> "none", msg |-> << >>]
Exc(cls, msg) == [cls |-> cls, msg |-> msg]

\* The classes a raised exception is an instance of (its class and bases).
Bases(cls) ==
    CASE cls = "gaierror"     -> {"gaierror", "OSError", "Exception"}
      [] cls = "herror"       -> {"herror", "OSError", "Exception"}
      [] cls = "timeout"      -> {"timeout", "OSError", "Exception"}
      [] cls = "UnicodeError" -> {"UnicodeError", "ValueError", "Exception"}
      [] cls = "ValueError"   -> {"ValueError", "Exception"}
      [] cls = "Exception"    -> {"Exception"}
      [] OTHER                -> {}

IsInstance(e, cls) == cls \in Bases(e.cls)

\* str(e)
StrOf(e) == e.msg

\* What one call of socket.gethostbyname_ex(domain) can do: return the
\* address list (third component, possibly empty) or raise.
Returns(ips) == [kind |-> "return", ips |-> ips, exc |-> NoExc]
Raises(e) == [kind |-> "raise", ips |-> << >>, exc |-> e]

AddressLists == {<< >>, << "192.0.2.1" >>, << "192.0.2.1", "192.0.2.2" >>}

LookupExceptions ==
    { Exc("gaierror", << "[Errno -2] Name or service not known" >>),
      Exc("gaierror", << "[Errno -3] Temporary failure in name resolution" >>),
      Exc("timeout", << "timed out" >>),
      Exc("herror", << "[Errno 1] Unknown host" >>),
      Exc("UnicodeError", << "label empty or too long" >>),
      Exc("Exception", << >>) }

LookupOutcomes == {Returns(a) : a \in AddressLists} \cup {Raises(e) : e \in LookupExceptions}

\* Candidate strings handed to the resolver: "a", "b", "a.b".
ResolverCandidates == {<< 97 >>, << 98 >>, << 97, DOT, 98 >>}

\* Values of the timeout argument (seconds); a negative one is rejected by
\* socket.setdefaulttimeout.
Timeouts == {-1, 0, 2}

\* ------------------------------------------------------------------------
\* dnsalt.check_domain_resolution
\* ------------------------------------------------------------------------
\* result = {'domain': domain, 'resolves': False, 'ip_addresses': [], 'error': None}
InitialResult(d) == [domain |-> d, resolves |-> FALSE, ip_addresses |-> << >>, error |-> None]

\* socket.setdefaulttimeout(timeout): the exception it raises, NoExc if none
setdefaulttimeout(timeout) ==
    IF timeout < 0 THEN Exc("ValueError", << "Timeout value out of range" >>) ELSE NoExc

\* socket.setdefaulttimeout(timeout): the process-wide default it leaves,
\* given the current one (unchanged when the call raises)
DefaultTimeoutAfter(current, timeout) ==
    IF setdefaulttimeout(timeout) # NoExc THEN current ELSE << timeout >>

\* result['resolves'] = True set whatever the address list holds
StoreAddresses_unguarded(result, ip_addresses) ==
    [result EXCEPT !.resolves = TRUE, !.ip_addresses = ip_addresses]

\* `if ip_addresses:` and the two assignments under it
StoreAddresses(result, ip_addresses) ==
    IF ip_addresses # << >>
    THEN [result EXCEPT !.resolves = TRUE, !.ip_addresses = ip_addresses]
    ELSE result

\* The body of the try block: the pair << exception raised or NoExc, result >>
TryBody(result, timeout, env) ==
    IF setdefaulttimeout(timeout) # NoExc THEN << setdefaulttimeout(timeout), result >>
    ELSE IF env.kind = "raise" THEN << env.exc, result >>
    ELSE << NoExc, StoreAddresses(result, env.ips) >>

\* the `except Exception` clause left out
Handlers_no_generic(e, result) ==
    IF IsInstance(e, "gaierror")
    THEN [kind |-> "return", value |-> [result EXCEPT !.error = PyStr(StrOf(e))], exc |-> NoExc]
    ELSE IF IsInstance(e, "timeout")
    THEN [kind |-> "return", value |-> [result EXCEPT !.error = PyStr(<< "Timeout" >>)], exc |-> NoExc]
    ELSE [kind |-> "raise", value |-> result, exc |-> e]

\* the `except socket.timeout` clause left out: a timeout falls to the generic clause
Handlers_no_timeout(e, result) ==
    IF IsInstance(e, "gaierror")
    THEN [kind |-> "return", value |-> [result EXCEPT !.error = PyStr(StrOf(e))], exc |-> NoExc]
    ELSE IF IsInstance(e, "Exception")
    THEN [kind |-> "return", value |-> [result EXCEPT !.error = PyStr(<< "Error: " >> \o StrOf(e))], exc |-> NoExc]
    ELSE [kind |-> "raise", value |-> result, exc |-> e]

\* The three except clauses, in source order.  The outcome of the call:
\* kind "return" with the result, or kind "raise" with the exception that
\* no clause caught.
Handlers(e, result) ==
    IF IsInstance(e, "gaierror")
    THEN [kind |-> "return", value |-> [result EXCEPT !.error = PyStr(StrOf(e))], exc |-> NoExc]
    ELSE IF IsInstance(e, "timeout")
    THEN [kind |-> "return", value |-> [result EXCEPT !.error = PyStr(<< "Timeout" >>)], exc |-> NoExc]
    ELSE IF IsInstance(e, "Exception")
    THEN [kind |-> "return", value |-> [result EXCEPT !.error = PyStr(<< "Error: " >> \o StrOf(e))], exc |-> NoExc]
    ELSE [kind |-> "raise", value |-> result, exc |-> e]

check_domain_resolution(d, timeout, env) ==
    LET body == TryBody(InitialResult(d), timeout, env)
    IN  IF body[1] = NoExc
        THEN [kind |-> "return", value |-> body[2], exc |-> NoExc]
        ELSE Handlers(body[1], body[2])

\* ------------------------------------------------------------------------
\* One direct call of check_domain_resolution
\* ------------------------------------------------------------------------
NoOutcome == [kind |-> "none", value |-> InitialResult(<< >>), exc |-> NoExc]

\* The caller invokes the check; the environment fixes what the lookup does.
OneCall ==
    /\ one_pc = "idle"
    /\ one_pc' = "called"
    /\ one_domain' \in ResolverCandidates
    /\ one_timeout' \in Timeouts
    /\ one_env' \in LookupOutcomes
    /\ UNCHANGED one_outcome
    /\ UNCHANGED << permVars, genVars, bulkVars, socketVars >>

\* The call runs to its end: it returns or raises.
OneFinish ==
    /\ one_pc = "called"
    /\ one_outcome' = check_domain_resolution(one_domain, one_timeout, one_env)
    /\ one_pc' = IF one_outcome'.kind = "return" THEN "returned" ELSE "raised"
    /\ UNCHANGED << one_domain, one_timeout, one_env >>
    /\ default_timeout' = DefaultTimeoutAfter(default_timeout, one_timeout)
    /\ UNCHANGED << permVars, genVars, bulkVars >>

OneNext == OneCall \/ OneFinish

\* ------------------------------------------------------------------------
\* check_domains_bulk
\* ------------------------------------------------------------------------
\* Names the module binds at import: the class, the three functions and
\* VERSION.  The batch check looks the class up under the name
\* DomainPermutator, which the file itself never binds; only an importing
\* program can have added it to the module's namespace.
DefinedNames == {"VERSION", "dnsalt", "check_domains_bulk", "main", "super_cool_banner"}
Namespaces == {DefinedNames, DefinedNames \cup {"DomainPermutator"}}

\* What the lookups of a batch can do (one outcome per class of verdict).
BulkLookupOutcomes ==
    { Returns(<< "192.0.2.1" >>),
      Returns(<< >>),
      Raises(Exc("gaierror", << "[Errno -2] Name or service not known" >>)),
      Raises(Exc("timeout", << "timed out" >>)) }

BulkCandidates == {<< 97 >>, << 98 >>}
BulkTimeouts == {-1, 2}

RECURSIVE ListsUpTo(_)
ListsUpTo(n) ==
    IF n = 0 THEN {<< >>}
    ELSE LET shorter == ListsUpTo(n - 1)
         IN  shorter \cup {Append(l, c) : l \in {t \in shorter : Len(t) = n - 1}, c \in BulkCandidates}

\* The worker threads of ThreadPoolExecutor(max_workers=max_workers)
Workers == 1..max_workers

\* a LIFO work queue: the most recently submitted item is taken first
NextWorkItem_lifo(q) == q[Len(q)]

\* The item a free worker takes from the work queue
NextWorkItem(q) == Head(q)

PendingFuture == [state |-> "pending", outcome |-> NoOutcome]

\* results = []; total = len(domains); the header is printed when verbose
BulkBegin ==
    /\ pc = "start"
    /\ results' = << >>
    /\ total' = Len(domains)
    /\ pc' = "executor"
    /\ UNCHANGED << module_globals, domains, max_workers, b_timeout, verbose, completed,
                    submitted, work_queue, worker, future, yielded, raised, start_order >>
    /\ UNCHANGED << permVars, genVars, oneVars, socketVars >>

\* with concurrent.futures.ThreadPoolExecutor(max_workers=max_workers):
\* the constructor rejects max_workers <= 0
BulkExecutor ==
    /\ pc = "executor"
    /\ IF max_workers <= 0
       THEN /\ pc' = "raised"
            /\ raised' = Exc("ValueError", << "max_workers must be greater than 0" >>)
       ELSE /\ pc' = "submit"
            /\ UNCHANGED raised
    /\ UNCHANGED << module_globals, domains, max_workers, b_timeout, verbose, results, total,
                    completed, submitted, work_queue, worker, future, yielded, start_order >>
    /\ UNCHANGED << permVars, genVars, oneVars, socketVars >>

\* One iteration of the dict comprehension: look up DomainPermutator, then
\* executor.submit(...); after the last iteration `completed = 0`.
BulkSubmit ==
    /\ pc = "submit"
    /\ IF submitted = Len(domains)
       THEN /\ pc' = "collect"
            /\ completed' = 0
            /\ UNCHANGED << submitted, work_queue, raised >>
       ELSE IF "DomainPermutator" \notin module_globals
       THEN /\ pc' = "exit_raise"
            /\ raised' = Exc("NameError", << "name 'DomainPermutator' is not defined" >>)
            /\ UNCHANGED << submitted, work_queue, completed >>
       ELSE /\ submitted' = submitted + 1
            /\ work_queue' = Append(work_queue, submitted + 1)
            /\ UNCHANGED << pc, raised, completed >>
    /\ UNCHANGED << module_globals, domains, max_workers, b_timeout, verbose, results, total,
                    worker, future, yielded, start_order >>
    /\ UNCHANGED << permVars, genVars, oneVars, socketVars >>

\* A free worker thread takes the next work item.
WorkerTake(w) ==
    /\ pc \in {"submit", "collect", "exit", "exit_raise"}
    /\ worker[w] = 0
    /\ work_queue # << >>
    /\ worker' = [worker EXCEPT ![w] = NextWorkItem(work_queue)]
    /\ work_queue' = SelectSeq(work_queue, LAMBDA i : i # NextWorkItem(work_queue))
    /\ future' = [future EXCEPT ![NextWorkItem(work_queue)].state = "running"]
    /\ start_order' = Append(start_order, NextWorkItem(work_queue))
    /\ UNCHANGED << module_globals, domains, max_workers, b_timeout, verbose, pc, results,
                    total, completed, submitted, yielded, raised >>
    /\ UNCHANGED << permVars, genVars, oneVars, socketVars >>

\* The worker's call of check_domain_resolution(domain, timeout) ends; the
\* future is set to its result or its exception and the worker is free again.
WorkerFinish(w) ==
    /\ worker[w] # 0
    /\ \E env \in BulkLookupOutcomes :
          future' = [future EXCEPT ![worker[w]] =
                        [state |-> "finished",
                         outcome |-> check_domain_resolution(domains[worker[w]], b_timeout, env)]]
    /\ worker' = [worker EXCEPT ![w] = 0]
    /\ UNCHANGED << module_globals, domains, max_workers, b_timeout, verbose, pc, results,
                    total, completed, submitted, work_queue, yielded, raised, start_order >>
    /\ default_timeout' = DefaultTimeoutAfter(default_timeout, b_timeout)
    /\ UNCHANGED << permVars, genVars, oneVars >>

\* One iteration of `for future in as_completed(future_to_domain)`:
\* result = future.result(); results.append(result); completed += 1
\* (future.result() re-raises the exception of a failed call).
BulkCollect ==
    /\ pc = "collect"
    /\ \E i \in 1..submitted :
          /\ i \notin yielded
          /\ future[i].state = "finished"
          /\ yielded' = yielded \cup {i}
          /\ IF future[i].outcome.kind = "raise"
             THEN /\ pc' = "exit_raise"
                  /\ raised' = future[i].outcome.exc
                  /\ UNCHANGED << results, completed >>
             ELSE /\ results' = Append(results, future[i].outcome.value)
                  /\ completed' = completed + 1
                  /\ UNCHANGED << pc, raised >>
    /\ UNCHANGED << module_globals, domains, max_workers, b_timeout, verbose, total,
                    submitted, work_queue, worker, future, start_order >>
    /\ UNCHANGED << permVars, genVars, oneVars, socketVars >>

\* as_completed is exhausted: the for loop ends and the with block is left.
BulkLoopEnd ==
    /\ pc = "collect"
    /\ yielded = 1..submitted
    /\ pc' = "exit"
    /\ UNCHANGED << module_globals, domains, max_workers, b_timeout, verbose, results, total,
                    completed, submitted, work_queue, worker, future, yielded, raised,
                    start_order >>
    /\ UNCHANGED << permVars, genVars, oneVars, socketVars >>

\* Leaving the with block: executor.shutdown(wait=True) returns once the
\* queue is drained and every worker is free; an exception raised inside
\* the block is re-raised after that.
BulkShutdown ==
    /\ pc \in {"exit", "exit_raise"}
    /\ work_queue = << >>
    /\ \A w \in Workers : worker[w] = 0
    /\ pc' = IF pc = "exit" THEN "summary" ELSE "raised"
    /\ UNCHANGED << module_globals, domains, max_workers, b_timeout, verbose, results, total,
                    completed, submitted, work_queue, worker, future, yielded, raised,
                    start_order >>
    /\ UNCHANGED << permVars, genVars, oneVars, socketVars >>

\* The summary (when verbose, it divides by total) and `return results`
BulkSummary ==
    /\ pc = "summary"
    /\ IF verbose /\ total = 0
       THEN /\ pc' = "raised"
            /\ raised' = Exc("ZeroDivisionError", << "division by zero" >>)
       ELSE /\ pc' = "returned"
            /\ UNCHANGED raised
    /\ UNCHANGED << module_globals, domains, max_workers, b_timeout, verbose, results, total,
                    completed, submitted, work_queue, worker, future, yielded, start_order >>
    /\ UNCHANGED << permVars, genVars, oneVars, socketVars >>

BulkNext ==
    \/ BulkBegin
    \/ BulkExecutor
    \/ BulkSubmit
    \/ \E w \in Workers : WorkerTake(w)
    \/ \E w \in Workers : WorkerFinish(w)
    \/ BulkCollect
    \/ BulkLoopEnd
    \/ BulkShutdown
    \/ BulkSummary

\* ------------------------------------------------------------------------
\* Initial states and specifications: each part of the program on its own,
\* the other two at rest
\* ------------------------------------------------------------------------
\* The permutator before construction, for every input domain; no resolver call.
PermInit ==
    /\ domain \in DomainInputs
    /\ constructed = FALSE
    /\ original_domain = << >>
    /\ name = << >>
    /\ tld = << >>
    /\ lastAttack = "none"
    /\ lastResult = << >>
    /\ firstCall = NoCall
    /\ one_pc = "idle"
    /\ one_domain = << >>
    /\ one_timeout = 0
    /\ one_env = Returns(<< >>)
    /\ one_outcome = NoOutcome
    /\ module_globals = DefinedNames
    /\ domains = << >>
    /\ max_workers = 0
    /\ b_timeout = 2
    /\ verbose = FALSE
    /\ pc = "start"
    /\ results = << >>
    /\ total = 0
    /\ completed = 0
    /\ submitted = 0
    /\ work_queue = << >>
    /\ worker = << >>
    /\ future = << >>
    /\ yielded = {}
    /\ raised = NoExc
    /\ start_order = << >>
    /\ default_timeout = << >>

\* Before a direct call of check_domain_resolution.
OneInit ==
    /\ domain = << >>
    /\ constructed = FALSE
    /\ original_domain = << >>
    /\ name = << >>
    /\ tld = << >>
    /\ lastAttack = "none"
    /\ lastResult = << >>
    /\ firstCall = NoCall
    /\ one_pc = "idle"
    /\ one_domain = << >>
    /\ one_timeout = 0
    /\ one_env = Returns(<< >>)
    /\ one_outcome = NoOutcome
    /\ module_globals = DefinedNames
    /\ domains = << >>
    /\ max_workers = 0
    /\ b_timeout = 2
    /\ verbose = FALSE
    /\ pc = "start"
    /\ results = << >>
    /\ total = 0
    /\ completed = 0
    /\ submitted = 0
    /\ work_queue = << >>
    /\ worker = << >>
    /\ future = << >>
    /\ yielded = {}
    /\ raised = NoExc
    /\ start_order = << >>
    /\ default_timeout = << >>

\* At the call of check_domains_bulk, for every argument list.
BulkInit ==
    /\ domain = << >>
    /\ constructed = FALSE
    /\ original_domain = << >>
    /\ name = << >>
    /\ tld = << >>
    /\ lastAttack = "none"
    /\ lastResult = << >>
    /\ firstCall = NoCall
    /\ one_pc = "idle"
    /\ one_domain = << >>
    /\ one_timeout = 0
    /\ one_env = Returns(<< >>)
    /\ one_outcome = NoOutcome
    /\ module_globals \in Namespaces
    /\ domains \in ListsUpTo(MaxCandidates)
    /\ max_workers \in 0..MaxWorkers
    /\ b_timeout \in BulkTimeouts
    /\ verbose \in BOOLEAN
    /\ pc = "start"
    /\ results = << >>
    /\ total = 0
    /\ completed = 0
    /\ submitted = 0
    /\ work_queue = << >>
    /\ worker = [w \in Workers |-> 0]
    /\ future = [i \in 1..Len(domains) |-> PendingFuture]
    /\ yielded = {}
    /\ raised = NoExc
    /\ start_order = << >>
    /\ default_timeout = << >>

\* An instance before construction, for the calls of all its methods.
GenInit ==
    /\ domain \in StringsUpTo(MaxGenLen)
    /\ constructed = FALSE
    /\ original_domain = << >>
    /\ name = << >>
    /\ tld = << >>
    /\ lastAttack = "none"
    /\ lastResult = << >>
    /\ firstCall = NoCall
    /\ one_pc = "idle"
    /\ one_domain = << >>
    /\ one_timeout = 0
    /\ one_env = Returns(<< >>)
    /\ one_outcome = NoOutcome
    /\ module_globals = DefinedNames
    /\ domains = << >>
    /\ max_workers = 0
    /\ b_timeout = 2
    /\ verbose = FALSE
    /\ pc = "start"
    /\ results = << >>
    /\ total = 0
    /\ completed = 0
    /\ submitted = 0
    /\ work_queue = << >>
    /\ worker = << >>
    /\ future = << >>
    /\ yielded = {}
    /\ raised = NoExc
    /\ start_order = << >>
    /\ default_timeout = << >>

SpecPerm == PermInit /\ [][PermNext]_vars

SpecOne == OneInit /\ [][OneNext]_vars

SpecBulk == BulkInit /\ [][BulkNext]_vars

SpecGen == GenInit /\ [][GenNext]_vars

\* ------------------------------------------------------------------------
\* Properties of check_domains_bulk
\* ------------------------------------------------------------------------
CallOver == pc \in {"returned", "raised"}

\* number of verdicts of rs whose `domain` field is d
VerdictCount(rs, d) == Cardinality({k \in 1..Len(rs) : rs[k].domain = d})
\* number of occurrences of d in the list l
Occurrences(l, d) == Cardinality({k \in 1..Len(l) : l[k] = d})

OneVerdictPerCandidate ==
    /\ Len(results) = Len(domains)
    /\ \A d \in BulkCandidates : VerdictCount(results, d) = Occurrences(domains, d)

\* C1: whatever the candidates and the completion order, a call with a
\* pool of at least one worker ends by returning a list with exactly one
\* verdict per input candidate (same length, same multiset of `domain`
\* fields).
C1_OneVerdictPerCandidate ==
    (CallOver /\ max_workers >= 1) => (pc = "returned" /\ OneVerdictPerCandidate)

\* C2: check_domains_bulk cannot fail as a whole: for every candidate list,
\* max_workers, timeout and verbose the call never ends with an exception.
C2_NeverFailsAsAWhole == pc # "raised" /\ raised = NoExc

InProgress == {i \in 1..Len(domains) : future[i].state = "running"}

\* C6: at most max_workers lookups are in progress, a worker holds one
\* candidate and no candidate is held by two workers, and the candidates
\* are taken by the workers in input order (the k-th lookup to start is the
\* k-th candidate).
C6_BoundedPoolInSubmissionOrder ==
    /\ Cardinality(InProgress) <= max_workers
    /\ InProgress = {worker[w] : w \in Workers} \ {0}
    /\ \A w1, w2 \in Workers : (w1 # w2 /\ worker[w1] # 0) => worker[w1] # worker[w2]
    /\ \A k \in 1..Len(start_order) : start_order[k] = k

\* C6 witness: the pool is full with two lookups, one of them a candidate
\* that had to wait for a free worker, and a later candidate has finished
\* before an earlier one.
C6_Witness ==
    /\ max_workers = 2
    /\ Cardinality(InProgress) = 2
    /\ Len(start_order) >= 3
    /\ \E i, j \in 1..Len(domains) : i < j /\ future[i].state = "running" /\ future[j].state = "finished"

TimesStarted(i) == Cardinality({k \in 1..Len(start_order) : start_order[k] = i})

\* C7: with at least one worker and a non-empty candidate list, the call
\* ends by returning, and when it has ended every candidate's lookup has
\* been started and completed exactly once and nothing is pending or in
\* flight.
C7_ReturnsWithEveryLookupDone ==
    (CallOver /\ max_workers >= 1 /\ domains # << >>) =>
        /\ pc = "returned"
        /\ \A i \in 1..Len(domains) : TimesStarted(i) = 1 /\ future[i].state = "finished"
        /\ work_queue = << >>
        /\ \A w \in Workers : worker[w] = 0

\* ------------------------------------------------------------------------
\* Properties of check_domain_resolution
\* ------------------------------------------------------------------------
OneOver == one_pc \in {"returned", "raised"}
Verdict == one_outcome.value

\* The failure of the call's resolution step, NoExc if it did not fail
Failure ==
    IF one_timeout < 0 THEN Exc("ValueError", << "Timeout value out of range" >>)
    ELSE IF one_env.kind = "raise" THEN one_env.exc
    ELSE NoExc

\* C3: the single-candidate check never raises: whatever the resolution
\* step does, the call returns a verdict for its domain, and a failure is
\* recorded in the verdict's error field.
C3_NeverThrows ==
    OneOver =>
        /\ one_pc = "returned"
        /\ one_outcome.kind = "return"
        /\ Verdict.domain = one_domain
        /\ (Failure # NoExc) => (~Verdict.error.isNone /\ Verdict.resolves = FALSE)

\* C3 witness: a failure that is neither a resolver error nor a timeout
\* has been turned into a verdict.
C3_Witness ==
    /\ one_pc = "returned"
    /\ Failure.cls = "herror"
    /\ Verdict.error = PyStr(<< "Error: ", "[Errno 1] Unknown host" >>)

ClassifiedFailures ==
    /\ (Failure.cls = "gaierror") => (Verdict.resolves = FALSE /\ Verdict.error = PyStr(Failure.msg))
    /\ (Failure.cls = "timeout") => (Verdict.resolves = FALSE /\ Verdict.error = PyStr(<< "Timeout" >>))
    /\ (Failure.cls \notin {"none", "gaierror", "timeout"}) =>
           (Verdict.resolves = FALSE /\ Verdict.error = PyStr(<< "Error: " >> \o Failure.msg))

NoAddressesFound == Failure = NoExc /\ one_env.ips = << >>

\* C4 as stated: no addresses or a resolver error give resolves=false and
\* a non-null error, a timeout gives "Timeout", any other failure a generic
\* description; every verdict with resolves=false has a non-null error.
C4_UnresolvedHasError ==
    (one_pc = "returned") =>
        /\ ClassifiedFailures
        /\ NoAddressesFound => (Verdict.resolves = FALSE /\ ~Verdict.error.isNone)
        /\ (Verdict.resolves = FALSE) => ~Verdict.error.isNone

\* C4 amended: the three classes of failure are recorded as stated; an
\* empty address list gives resolves=false with error null; so a verdict
\* with resolves=false has a non-null error exactly when the step raised.
C4_UnresolvedClassified ==
    (one_pc = "returned") =>
        /\ ClassifiedFailures
        /\ NoAddressesFound => (Verdict.resolves = FALSE /\ Verdict.error = None)
        /\ (Verdict.resolves = FALSE) => (~Verdict.error.isNone <=> Failure # NoExc)

\* C4 witness: a lookup that found no addresses has returned an unresolved
\* verdict whose error is null.
C4_Witness ==
    /\ one_pc = "returned"
    /\ NoAddressesFound
    /\ Verdict.resolves = FALSE
    /\ Verdict.error = None

WellFormedVerdict(v) ==
    /\ v.resolves <=> (v.ip_addresses # << >>)
    /\ v.resolves => v.error = None
    /\ (~v.resolves) => v.ip_addresses = << >>
    /\ ~(v.resolves /\ ~v.error.isNone)

\* C5: in every verdict, resolves is true iff ip_addresses is non-empty,
\* resolves=true has error null and resolves=false has no addresses; this
\* holds of the verdict of a single check and of every collected verdict.
C5_VerdictWellFormed ==
    /\ (one_pc = "returned") => WellFormedVerdict(Verdict)
    /\ \A k \in 1..Len(results) : WellFormedVerdict(results[k])
    /\ \A i \in 1..Len(domains) :
           (future[i].state = "finished" /\ future[i].outcome.kind = "return")
               => WellFormedVerdict(future[i].outcome.value)

\* C5 witness: a lookup that returned two addresses gave a resolving verdict.
C5_Witness ==
    /\ one_pc = "returned"
    /\ Verdict.resolves
    /\ Len(Verdict.ip_addresses) = 2
    /\ Verdict.error = None

\* ------------------------------------------------------------------------
\* Properties of the permutator
\* ------------------------------------------------------------------------
HasDot(d) == \E k \in 1..Len(d) : d[k] = DOT

\* C8: after construction, a domain with a dot is split on its last dot
\* (name + "." + tld is the domain and tld has no dot); a domain without a
\* dot gives name = domain and tld = "com".
C8_Decomposition ==
    constructed =>
        /\ original_domain = domain
        /\ HasDot(domain) => (name \o << DOT >> \o tld = domain /\ ~HasDot(tld))
        /\ (~HasDot(domain)) => (name = domain /\ tld = COM)

\* C8 witness: a domain with two dots, the first of them in the name.
C8_Witness ==
    /\ constructed
    /\ HasDot(name)
    /\ Len(tld) > 0

NamePart(c, t) == SubSeq(c, 1, Len(c) - Len(t) - 1)
CountChar(s, c) == Cardinality({k \in 1..Len(s) : s[k] = c})
IsPermutationOf(s, u) == Len(s) = Len(u) /\ \A c \in Alphabet : CountChar(s, c) = CountChar(u, c)

\* position k and k+1 (1-based) of nm exchanged
Swapped(nm, k) ==
    [j \in 1..Len(nm) |-> IF j = k THEN nm[k + 1] ELSE IF j = k + 1 THEN nm[k] ELSE nm[j]]

TranspositionCandidates ==
    \A k \in 1..Len(lastResult) :
        /\ lastResult[k] = Swapped(name, k) \o << DOT >> \o tld
        /\ IsPermutationOf(NamePart(lastResult[k], tld), name)

\* C9 as stated: a name of length n gives exactly n-1 candidates, the i-th
\* being the name with characters i and i+1 swapped, plus "." + tld.
C9_TranspositionCount ==
    (lastAttack = "transposition") =>
        /\ Len(lastResult) = Len(name) - 1
        /\ TranspositionCandidates

\* C9 amended: a name of length n >= 1 gives exactly n-1 candidates and the
\* empty name gives none; the i-th candidate is as stated.
C9_TranspositionCountNonEmpty ==
    (lastAttack = "transposition") =>
        /\ (Len(name) >= 1) => Len(lastResult) = Len(name) - 1
        /\ (Len(name) = 0) => lastResult = << >>
        /\ TranspositionCandidates

\* C9 witness: a name of three characters gave two candidates.
C9_Witness ==
    /\ lastAttack = "transposition"
    /\ Len(name) = 3
    /\ Len(lastResult) = 2

\* nm without its position k (1-based)
Without(nm, k) == [j \in 1..(Len(nm) - 1) |-> IF j < k THEN nm[j] ELSE nm[j + 1]]

\* C10: a name of length n gives at most n candidates, in order of the
\* removed position, each the name with one position removed plus "." + tld
\* (name part of length n-1); a name of length 0 or 1 gives none, and no
\* candidate is empty or has an empty name part.
C10_Omission ==
    (lastAttack = "omission") =>
        /\ Len(lastResult) <= Len(name)
        /\ (Len(name) <= 1) => lastResult = << >>
        /\ (Len(name) >= 2) => Len(lastResult) = Len(name)
        /\ \A k \in 1..Len(lastResult) :
              /\ lastResult[k] = Without(name, k) \o << DOT >> \o tld
              /\ Len(NamePart(lastResult[k], tld)) = Len(name) - 1
              /\ lastResult[k] # << >>
              /\ NamePart(lastResult[k], tld) # << >>

\* C10 witness: a name of two characters gave two candidates of one character.
C10_Witness ==
    /\ lastAttack = "omission"
    /\ Len(name) = 2
    /\ Len(lastResult) = 2
    /\ \A k \in 1..2 : Len(NamePart(lastResult[k], tld)) = 1

\* the bit of weight 2^k of the code point v
BitOf(v, k) == (v \div Pow2(k)) % 2

\* y is x with exactly the bit b inverted (all bits of a code point below 2^21)
DiffersInBit(x, y, b) ==
    \A k \in 0..20 : BitOf(y, k) = (IF k = b THEN 1 - BitOf(x, k) ELSE BitOf(x, k))

\* c is nm with its position q (1-based) replaced by a code point that is
\* nm[q] with bit b inverted, followed by "." + t
IsFlipOf(c, nm, t, q, b) ==
    /\ Len(c) = Len(nm) + 1 + Len(t)
    /\ \A j \in 1..Len(nm) : j # q => c[j] = nm[j]
    /\ DiffersInBit(nm[q], c[q], b)
    /\ SubSeq(c, Len(nm) + 1, Len(c)) = << DOT >> \o t

AllowedSubstitute(v) ==
    /\ 33 <= v /\ v <= 126
    /\ v = 45 \/ v \in 48..57 \/ v \in 65..90 \/ v \in 97..122

\* the (position, bit) pairs of the name whose flipped code point is allowed
ValidFlips ==
    {pb \in (1..Len(name)) \X (0..7) :
        \E v \in 33..126 : DiffersInBit(name[pb[1]], v, pb[2]) /\ AllowedSubstitute(v)}

\* rank of a pair in the order "position, then bit"
FlipRank(pb) ==
    Cardinality({o \in ValidFlips : o[1] < pb[1] \/ (o[1] = pb[1] /\ o[2] <= pb[2])})

\* C11: every bitsquat candidate is the name with one position replaced by
\* the character whose code point is the original XOR 2^b (b in 0..7), plus
\* "." + tld; the substitute lies in [33,126] and is alphanumeric or a
\* hyphen; every (position, bit) whose flip passes that filter gives exactly
\* one candidate, in order of position, then bit.
C11_Bitsquat ==
    (lastAttack = "bitsquat") =>
        /\ Len(lastResult) = Cardinality(ValidFlips)
        /\ \A pb \in ValidFlips :
              /\ IsFlipOf(lastResult[FlipRank(pb)], name, tld, pb[1], pb[2])
              /\ AllowedSubstitute(lastResult[FlipRank(pb)][pb[1]])

\* C11 witness: a name of two characters, one of them 'a', whose flips of
\* bits 0, 6 and 7 are filtered out, gave candidates.
C11_Witness ==
    /\ lastAttack = "bitsquat"
    /\ Len(name) = 2
    /\ name[2] = 97
    /\ Len(lastResult) >= 5
    /\ \E k \in 1..Len(lastResult) : lastResult[k][2] = 65

\* number of inter-character boundaries of the name
Boundaries == IF Len(name) = 0 THEN 0 ELSE Len(name) - 1

\* nm with a hyphen inserted after its first k characters
WithHyphenAfter(nm, k) ==
    [j \in 1..(Len(nm) + 1) |-> IF j <= k THEN nm[j] ELSE IF j = k + 1 THEN 45 ELSE nm[j - 1]]

\* C12: the sequence hyphenation_attack returns holds no candidate string
\* twice; its first entries are the candidates of the first pass, one per
\* inter-character boundary, and an entry of the second pass is a string
\* not emitted before it.
C12_HyphenationNoDuplicates ==
    (lastAttack = "hyphenation") =>
        /\ \A j, k \in 1..Len(lastResult) : j # k => lastResult[j] # lastResult[k]
        /\ Len(lastResult) >= Boundaries
        /\ \A k \in 1..Boundaries : lastResult[k] = WithHyphenAfter(name, k) \o << DOT >> \o tld
        /\ \A k \in (Boundaries + 1)..Len(lastResult) :
               \A j \in 1..(k - 1) : lastResult[j] # lastResult[k]

\* ------------------------------------------------------------------------
\* Properties of repeated generation
\* ------------------------------------------------------------------------
\* no method call changes the Domain of a constructed instance
DomainNeverMutated ==
    constructed => (original_domain' = original_domain /\ name' = name /\ tld' = tld)

GenerationRepeatable ==
    /\ constructed => original_domain = domain
    /\ (firstCall.kind # "none" /\ lastAttack = firstCall.kind) => lastResult = firstCall.result
    /\ (lastAttack = "generate_all") =>
           /\ DOMAIN lastResult = AttackKinds \cup {"original"}
           /\ lastResult["original"] = << domain >>
           /\ (firstCall.kind \in AttackKinds) => lastResult[firstCall.kind] = firstCall.result
    /\ (firstCall.kind = "generate_all" /\ lastAttack \in AttackKinds) =>
           firstCall.result[lastAttack] = lastResult

WorkerStep == worker' # worker

\* the process-wide state a worker can reach besides the two aggregates is
\* the socket module's default timeout; sharing nothing else means a
\* worker's step leaves it as it was
WorkersShareOnlyAggregates ==
    WorkerStep => default_timeout' = default_timeout

\* results only grows at its end, by one verdict at a time, and completed
\* grows by one exactly when a verdict is appended
AggregatesGrowTogether ==
    /\ Len(results') >= Len(results)
    /\ SubSeq(results', 1, Len(results)) = results
    /\ Len(results') <= Len(results) + 1
    /\ completed' \in {completed, completed + 1}
    /\ (completed' = completed + 1) <=> (Len(results') = Len(results) + 1)

NoLostUpdate ==
    /\ (pc \in {"collect", "exit", "summary", "returned"}) => completed = Len(results)
    /\ (pc = "returned") => (completed = submitted /\ Len(results) = submitted /\ submitted = Len(domains))

====
